---- MODULE Spec2Model ----
(***************************************************************************)
(* Model of the save helper of the notebook index-checkpoint.ipynb: the    *)
(* class attributes __table__ and columns, the instance attribute          *)
(* dictionary obj.__dict__, and the functions values, keys and save as     *)
(* they are defined by the last executed cell (lines 639-651).             *)
(*                                                                         *)
(* Python values are tagged: a list is [type |-> "list", val |-> items]    *)
(* and a string is [type |-> "str", val |-> tokens], a text being the      *)
(* sequence of the pieces it was concatenated from.  Formatting a value    *)
(* into an f-string is modelled by what Python does: a string is inserted  *)
(* as it is, a list is inserted as its repr, brackets and quotes included. *)
(***************************************************************************)
EXTENDS Integers, Sequences, FiniteSets, TLC

VARIABLES table, columns, obj_attrs, history

vars == <<table, columns, obj_attrs, history>>

\* ---------------------------------------------------------------- bounds
MaxAttrs == 3
MaxCalls == 2

\* ---------------------------------------------------------------- inputs
\* the User class of the notebook, and two more mapped classes of the same shape
Classes ==
    { [table |-> "users",  columns |-> <<"id", "name", "birthday">>],
      [table |-> "guests", columns |-> <<"birthday", "name">>],
      [table |-> "tags",   columns |-> <<"name">>] }

\* attribute names calling code may assign; "nickname" is in no column list
AttrNames == {"id", "name", "birthday", "nickname"}

NoneVal == "<None>"

\* attribute values: the notebook's two, and None
AttrValues == {"bob", "3/5/1997", NoneVal}

\* what a driver call may do: return, or raise one of its errors
Failures == {"IntegrityError", "OperationalError"}

Ok == "ok"

Outcomes == {Ok} \cup Failures

\* ---------------------------------------------------------------- python values
PyList(s) == [type |-> "list", val |-> s]

PyStr(t) == [type |-> "str", val |-> t]

PyNone == [type |-> "none", val |-> <<>>]

\* sep.join(items), items being strings of one piece each
RECURSIVE Join(_, _)
Join(sep, s) ==
    IF s = <<>> THEN <<>>
    ELSE IF Len(s) = 1 THEN <<s[1]>>
    ELSE <<s[1], sep>> \o Join(sep, Tail(s))

\* n * [x]
Repeat(x, n) == [i \in 1..n |-> x]

\* the items of repr(list of str), without the brackets
RECURSIVE ReprItems(_)
ReprItems(s) ==
    IF s = <<>> THEN <<>>
    ELSE IF Len(s) = 1 THEN <<"'", s[1], "'">>
    ELSE <<"'", s[1], "'", ", ">> \o ReprItems(Tail(s))

\* what f"{v}" inserts into the text
Format(v) ==
    IF v.type = "str" THEN v.val
    ELSE IF v.type = "list" THEN <<"[">> \o ReprItems(v.val) \o <<"]">>
    ELSE <<"None">>

\* ---------------------------------------------------------------- the object
\* obj.__dict__ is a sequence of [k, v] in insertion order
DictKeys(d) == {d[i].k : i \in 1..Len(d)}

DictGet(d, a) == d[CHOOSE i \in 1..Len(d) : d[i].k = a].v

DictSet(d, a, v) ==
    IF a \in DictKeys(d)
    THEN [i \in 1..Len(d) |-> IF d[i].k = a THEN [k |-> a, v |-> v] ELSE d[i]]
    ELSE Append(d, [k |-> a, v |-> v])

Obj == [table |-> table, columns |-> columns, dict |-> obj_attrs]

\* ---------------------------------------------------------------- values, keys
RECURSIVE SelectValues(_, _)
SelectValues(cols, d) ==
    IF cols = <<>> THEN <<>>
    ELSE (IF cols[1] \in DictKeys(d) THEN <<DictGet(d, cols[1])>> ELSE <<>>)
         \o SelectValues(Tail(cols), d)

RECURSIVE SelectKeys(_, _)
SelectKeys(cols, d) ==
    IF cols = <<>> THEN <<>>
    ELSE (IF cols[1] \in DictKeys(d) THEN <<cols[1]>> ELSE <<>>)
         \o SelectKeys(Tail(cols), d)

\* variant: every value of the dictionary, as list(obj.__dict__.values())
values_all(obj) == PyList([i \in 1..Len(obj.dict) |-> obj.dict[i].v])

\* variant: the filter tests the value, not the presence, of the attribute
RECURSIVE SelectTruthy(_, _)
SelectTruthy(cols, d) ==
    IF cols = <<>> THEN <<>>
    ELSE (IF cols[1] \in DictKeys(d) /\ DictGet(d, cols[1]) # NoneVal
          THEN <<DictGet(d, cols[1])>> ELSE <<>>)
         \o SelectTruthy(Tail(cols), d)

values_truthy(obj) == PyList(SelectTruthy(obj.columns, obj.dict))

values(obj) == PyList(SelectValues(obj.columns, obj.dict))

\* variant: walks the dictionary, keeping the names that are columns
keys_dictorder(obj) ==
    PyList(SelectKeys([i \in 1..Len(obj.dict) |-> obj.dict[i].k],
                      [i \in 1..Len(obj.columns) |-> [k |-> obj.columns[i], v |-> NoneVal]]))

keys(obj) == PyList(SelectKeys(obj.columns, obj.dict))

\* the earlier definition of keys (lines 464-467), which joins the names
keys_joined(obj) == PyStr(Join(", ", SelectKeys(obj.columns, obj.dict)))

\* ---------------------------------------------------------------- save
\* variant: one placeholder per declared column
s_str_columns(obj) == Join(", ", Repeat("%s", Len(obj.columns)))

s_str(obj) == Join(", ", Repeat("%s", Len(values(obj).val)))

insert_str(obj) ==
    <<"INSERT INTO ", obj.table, " (">> \o Format(keys(obj))
        \o <<") VALUES (">> \o s_str(obj) \o <<");">>

ExecuteEvent(obj, raised) ==
    [op |-> "execute", on |-> "cursor", stmt |-> insert_str(obj),
     params |-> values(obj).val, raised |-> raised]

CommitEvent(raised) ==
    [op |-> "commit", on |-> "conn", stmt |-> <<>>, params |-> <<>>,
     raised |-> raised]

\* variant: the commit is issued before the statement
SaveEvents_commit_first(obj, eo, co) ==
    <<CommitEvent(co), ExecuteEvent(obj, eo)>>

\* variant: an object that was saved before is not inserted again
SaveEvents_dedupe(obj, eo, co) ==
    IF \E i \in 1..Len(history) : history[i].fn = "save" /\ history[i].arg = obj
    THEN <<>>
    ELSE IF eo # Ok THEN <<ExecuteEvent(obj, eo)>>
    ELSE <<ExecuteEvent(obj, Ok), CommitEvent(co)>>

\* the driver calls save makes when cursor.execute does eo and conn.commit does co
SaveEvents(obj, eo, co) ==
    IF eo # Ok THEN <<ExecuteEvent(obj, eo)>>
    ELSE <<ExecuteEvent(obj, Ok), CommitEvent(co)>>

\* variant: a failing execute is caught and save returns normally
SaveOutcome_swallow(eo, co) == IF eo # Ok THEN Ok ELSE co

\* what the caller of save sees: "ok" for a normal return, else the exception
SaveOutcome(eo, co) == IF eo # Ok THEN eo ELSE co

Call(fn, obj, ret, raised, events) ==
    [fn |-> fn, arg |-> obj, ret |-> ret, raised |-> raised, events |-> events]

\* ---------------------------------------------------------------- actions
Init ==
    /\ \E c \in Classes : table = c.table /\ columns = c.columns
    /\ obj_attrs = <<>>
    /\ history = <<>>

\* user.<a> = v; the instance is populated before it is handed to the functions
SetAttr ==
    \E a \in AttrNames, v \in AttrValues :
        /\ history = <<>>
        /\ a \in DictKeys(obj_attrs) \/ Len(obj_attrs) < MaxAttrs
        /\ obj_attrs' = DictSet(obj_attrs, a, v)
        /\ UNCHANGED <<table, columns, history>>

CallValues ==
    /\ Len(history) < MaxCalls
    /\ history' = Append(history, Call("values", Obj, values(Obj), Ok, <<>>))
    /\ UNCHANGED <<table, columns, obj_attrs>>

CallKeys ==
    /\ Len(history) < MaxCalls
    /\ history' = Append(history, Call("keys", Obj, keys(Obj), Ok, <<>>))
    /\ UNCHANGED <<table, columns, obj_attrs>>

\* variant: save empties the instance after inserting it
Save_clearing ==
    /\ Len(history) < MaxCalls
    /\ \E eo \in Outcomes, co \in Outcomes :
          history' = Append(history,
              Call("save", Obj, PyNone, SaveOutcome(eo, co), SaveEvents(Obj, eo, co)))
    /\ obj_attrs' = <<>>
    /\ UNCHANGED <<table, columns>>

Save ==
    /\ Len(history) < MaxCalls
    /\ \E eo \in Outcomes, co \in Outcomes :
          history' = Append(history,
              Call("save", Obj, PyNone, SaveOutcome(eo, co), SaveEvents(Obj, eo, co)))
    /\ UNCHANGED <<table, columns, obj_attrs>>

Next == SetAttr \/ CallValues \/ CallKeys \/ Save

Spec == Init /\ [][Next]_vars

\* ---------------------------------------------------------------- properties
Range(s) == {s[i] : i \in 1..Len(s)}

DictDel(d, a) == SelectSeq(d, LAMBDA e : e.k # a)

Pairs(k, v) == [i \in 1..Len(k) |-> <<k[i], IF i <= Len(v) THEN v[i] ELSE "<missing>">>]

SaveCalls == {i \in 1..Len(history) : history[i].fn = "save"}

CallsOf(fn) == {i \in 1..Len(history) : history[i].fn = fn}

Ops(events) == [i \in 1..Len(events) |-> events[i].op]

CountOp(events, op) == Cardinality({i \in 1..Len(events) : events[i].op = op})

CountTok(text, t) == Cardinality({i \in 1..Len(text) : text[i] = t})

\* position of column c in the column list
ColPos(cols, c) == CHOOSE i \in 1..Len(cols) : cols[i] = c

HasExtraAttr(obj) == \E a \in DictKeys(obj.dict) : a \notin Range(obj.columns)

HasMissingColumn(obj) == \E c \in Range(obj.columns) : c \notin DictKeys(obj.dict)

\* C1: keys and values of an object have the same length and the i-th value
\* is the object's value of the i-th key; leaving one attribute out removes
\* exactly that name and that value and keeps every other pair aligned.
C1_KeysValuesAligned ==
    LET k == keys(Obj).val
        v == values(Obj).val
    IN  /\ Len(k) = Len(v)
        /\ \A i \in 1..Len(k) :
              k[i] \in DictKeys(obj_attrs) /\ v[i] = DictGet(obj_attrs, k[i])
        /\ \A a \in DictKeys(obj_attrs) :
              LET o2 == [Obj EXCEPT !.dict = DictDel(obj_attrs, a)]
                  k2 == keys(o2).val
                  v2 == values(o2).val
              IN  /\ Len(k2) = Len(v2)
                  /\ Pairs(k2, v2) = SelectSeq(Pairs(k, v), LAMBDA p : p[1] # a)

\* keys and values were both called on an object that has an attribute outside
\* the column list, lacks a column, and selects at least two columns
C1_Witness ==
    /\ CallsOf("keys") # {} /\ CallsOf("values") # {}
    /\ HasExtraAttr(Obj) /\ HasMissingColumn(Obj)
    /\ Len(keys(Obj).val) >= 2

\* C2: every call of keys and values raises nothing and returns exactly the
\* declared columns that are set on the instance, in the order of the column
\* list whatever the order of assignment; attributes that are no column are
\* left out and unset columns are omitted.
C2_DeclaredSetColumnsInOrder ==
    \A n \in CallsOf("keys") \cup CallsOf("values") :
        LET h == history[n]
            cols == h.arg.columns
            d == h.arg.dict
            r == h.ret.val
            k == keys(h.arg).val
        IN  /\ h.raised = Ok
            /\ h.ret.type = "list"
            /\ Range(k) = Range(cols) \cap DictKeys(d)
            /\ \A i, j \in 1..Len(k) : i < j => ColPos(cols, k[i]) < ColPos(cols, k[j])
            /\ h.fn = "keys" => r = k
            /\ h.fn = "values" =>
                  /\ Len(r) = Len(k)
                  /\ \A i \in 1..Len(k) : r[i] = DictGet(d, k[i])

\* keys was called on an object whose attributes were assigned in an order
\* opposite to the column list, with an extra attribute and an unset column
C2_Witness ==
    \E n \in CallsOf("keys") :
        LET d == history[n].arg.dict
            cols == history[n].arg.columns
        IN  /\ HasExtraAttr(history[n].arg) /\ HasMissingColumn(history[n].arg)
            /\ \E i, j \in 1..Len(d) :
                  /\ i < j
                  /\ d[i].k \in Range(cols) /\ d[j].k \in Range(cols)
                  /\ ColPos(cols, d[j].k) < ColPos(cols, d[i].k)

\* the statement text the documentation shows, with or without the final ';'
DocumentedInsert(obj) ==
    <<"INSERT INTO ", obj.table, " (">> \o Format(keys_joined(obj))
        \o <<") VALUES (">> \o Join(", ", Repeat("%s", Len(SelectKeys(obj.columns, obj.dict))))
        \o <<")">>

\* C3: the statement save passes to cursor.execute is
\* INSERT INTO <table> (<col1>, <col2>, ...) VALUES (%s, %s, ...), the column
\* part being the set declared columns separated by ', ' without brackets or
\* quotes, bound to the matching values in the same order.
C3_DocumentedStatement ==
    \A n \in SaveCalls :
        LET h == history[n]
            e == h.events[1]
        IN  /\ e.op = "execute"
            /\ e.stmt \in {DocumentedInsert(h.arg), DocumentedInsert(h.arg) \o <<";">>}
            /\ e.params = SelectValues(h.arg.columns, h.arg.dict)

\* C4: keys returns the selected column names as one string, joined by ', '.
C4_KeysIsJoinedString ==
    \A n \in CallsOf("keys") :
        /\ history[n].ret.type = "str"
        /\ history[n].ret = keys_joined(history[n].arg)

\* C5 (as stated): every call of save performs exactly one execute followed by
\* exactly one commit, and the commit is skipped in no outcome.
C5_AlwaysCommits ==
    \A n \in SaveCalls : Ops(history[n].events) = <<"execute", "commit">>

\* C5 (amended): every call of save performs exactly one execute, and it comes
\* first; when the execute returns, exactly one commit follows it; when the
\* execute raises, no commit is made.
C5_CommitAfterExecute ==
    \A n \in SaveCalls :
        LET e == history[n].events
        IN  /\ Len(e) >= 1 /\ e[1].op = "execute"
            /\ CountOp(e, "execute") = 1
            /\ e[1].raised = Ok => Ops(e) = <<"execute", "commit">>
            /\ e[1].raised # Ok => Ops(e) = <<"execute">>

\* both outcomes of the execute were seen: one call committed, one did not
C5_Witness ==
    \E m, n \in SaveCalls :
        /\ history[m].events[1].raised = Ok /\ Len(history[m].events) = 2
        /\ history[n].events[1].raised # Ok

C7_FailurePropagates ==
    \A n \in SaveCalls :
        LET h == history[n]
            e == h.events
        IN  /\ \A i \in 1..Len(e) :
                  /\ e[i].op \in {"execute", "commit"}
                  /\ e[i].raised # Ok => (h.raised = e[i].raised /\ i = Len(e))
            /\ (\A i \in 1..Len(e) : e[i].raised = Ok) => h.raised = Ok
            /\ CountOp(e, "execute") <= 1

\* one call failed in execute and another failed in commit, with different errors
C7_Witness ==
    \E m, n \in SaveCalls :
        /\ history[m].events[1].raised \in Failures
        /\ Len(history[n].events) = 2
        /\ history[n].events[2].raised \in Failures
        /\ history[n].events[2].raised # history[m].events[1].raised

\* C8: a call of keys, values or save leaves the attribute dictionary, the
\* table name and the column list as they were; keys and values touch neither
\* the cursor nor the connection, and save does at most one execute on the
\* cursor and one commit on the connection and nothing else to them.
C8_Stateless ==
    [][history' # history =>
          /\ obj_attrs' = obj_attrs /\ table' = table /\ columns' = columns
          /\ Len(history') = Len(history) + 1
          /\ LET h == history'[Len(history')]
             IN  /\ h.arg = Obj
                 /\ h.fn # "save" => h.events = <<>>
                 /\ \A i \in 1..Len(h.events) :
                       \/ h.events[i].op = "execute" /\ h.events[i].on = "cursor"
                       \/ h.events[i].op = "commit" /\ h.events[i].on = "conn"
                 /\ CountOp(h.events, "execute") <= 1
                 /\ CountOp(h.events, "commit") <= 1]_vars

\* save returned after an earlier call of keys or values, on an instance that
\* still has the attributes it was called with
C8_Witness ==
    /\ CallsOf("keys") \cup CallsOf("values") # {}
    /\ \E n \in SaveCalls : history[n].raised = Ok /\ history[n].arg.dict = obj_attrs
    /\ Len(obj_attrs) >= 2

C10_PresenceNotValue ==
    /\ \A c \in Range(columns) \cap DictKeys(obj_attrs) :
          \E i \in 1..Len(keys(Obj).val) :
              /\ keys(Obj).val[i] = c
              /\ i <= Len(values(Obj).val)
              /\ values(Obj).val[i] = DictGet(obj_attrs, c)
    /\ \A n \in SaveCalls :
          LET h == history[n]
          IN  \A c \in Range(h.arg.columns) \cap DictKeys(h.arg.dict) :
                  \E i \in 1..Len(h.events[1].params) :
                      /\ keys(h.arg).val[i] = c
                      /\ h.events[1].params[i] = DictGet(h.arg.dict, c)

\* save was called on an object whose declared column holds None
C10_Witness ==
    \E n \in SaveCalls :
        \E c \in Range(history[n].arg.columns) \cap DictKeys(history[n].arg.dict) :
            /\ DictGet(history[n].arg.dict, c) = NoneVal
            /\ NoneVal \in Range(history[n].events[1].params)
====
